---- MODULE Spec2Model ----
(***************************************************************************)
(* tbl2map: conversion of PCR tabular data into 8 x 12 tube well maps.     *)
(*                                                                         *)
(* Text (Python str) is a tuple of one-character strings, so that regular  *)
(* expression searches, case folding, splitting and sorting are computed   *)
(* character by character.  A pandas frame is a record                     *)
(* [index, columns, val], val being a function over index \X columns.      *)
(***************************************************************************)
EXTENDS Integers, Sequences, FiniteSets, TLC

VARIABLES
    hlgts,      \* the_yml['inp']['data']['highlight']: list of 'pattern;bkg;txt'
    color_map,  \* the insertion-ordered dict built from hlgts
    idx,        \* position of the for loop over tbls (1..NumTbls)
    pc,         \* position inside convert_table_to_map
    err,        \* the exception that left convert_table_to_map, or "none"
    headers,    \* column headers of the worksheet being read
    recs,       \* rows of df (Well, Content, Sample) of the current file
    df_pivot,   \* the well map of the current file
    styled,     \* per-cell result of highlight_cells on df_pivot
    written,    \* files to which the map sheet has been written (pd.ExcelWriter)
    saved,      \* files whose decorated workbook has been saved (wb.save)
    started,    \* files whose loop iteration has begun
    val,        \* highlight_cells: the cell value examined
    the_color,  \* highlight_cells: the returned style
    inps,       \* get_tidy_list: the argument
    files,      \* get_tidy_list: the names for which os.path.isfile is true
    tidy        \* get_tidy_list: [out, raised] once it has returned or raised

vars == <<hlgts, color_map, idx, pc, err, headers, recs, df_pivot, styled,
          written, saved, started, val, the_color, inps, files, tidy>>

convVars == <<hlgts, color_map, idx, pc, err, headers, recs, df_pivot, styled,
              written, saved, started>>
hlValVars == <<val, the_color>>
tidyVars == <<inps, files, tidy>>

----------------------------------------------------------------------------
(* Bounds *)

NumTbls == 2
MaxRecs == 2
MaxRules == 2
MaxInps == 3

----------------------------------------------------------------------------
(* Characters and text *)

Upper == <<"A","B","C","D","E","F","G","H","I","J","K","L","M",
           "N","O","P","Q","R","S","T","U","V","W","X","Y","Z">>
Lower == <<"a","b","c","d","e","f","g","h","i","j","k","l","m",
           "n","o","p","q","r","s","t","u","v","w","x","y","z">>
Digits == <<"0","1","2","3","4","5","6","7","8","9">>

Range(s) == {s[i] : i \in DOMAIN s}

IsUpper(c) == c \in Range(Upper)
IsLower(c) == c \in Range(Lower)
IsAlpha(c) == IsUpper(c) \/ IsLower(c)
IsDigit(c) == c \in Range(Digits)
IsSpace(c) == c = " "

DigitVal(c) == (CHOOSE i \in DOMAIN Digits : Digits[i] = c) - 1

ToLowerChar(c) == IF IsUpper(c) THEN Lower[CHOOSE i \in DOMAIN Upper : Upper[i] = c] ELSE c
ToLower(s) == [i \in DOMAIN s |-> ToLowerChar(s[i])]

Min(S) == CHOOSE m \in S : \A n \in S : m <= n
Max(S) == CHOOSE m \in S : \A n \in S : m >= n

\* re.search of a literal pattern: the positions at which sub occurs in s
Occurrences(sub, s) ==
    {i \in 1..(Len(s) - Len(sub) + 1) : SubSeq(s, i, i + Len(sub) - 1) = sub}
Contains(sub, s) == Occurrences(sub, s) # {}

\* int() of a run of decimal digits
RECURSIVE ToInt(_)
ToInt(s) ==
    IF s = <<>> THEN 0
    ELSE 10 * ToInt(SubSeq(s, 1, Len(s) - 1)) + DigitVal(s[Len(s)])

\* NaN (a missing value) and None, kept apart from every text
NaN == <<"NaN">>
None == <<"None">>
NaNKey == "NaN"

\* str(val): text is itself, np.nan is 'nan'
PyStr(v) == IF v = NaN THEN <<"n", "a", "n">> ELSE v

----------------------------------------------------------------------------
(* Highlight rules: convert_table_to_map (preprocessing) and highlight_cells *)

\* re.split(';', hlgt): the fields between the separators
RECURSIVE Split(_, _)
Split(s, sep) ==
    IF \A i \in DOMAIN s : s[i] # sep THEN <<s>>
    ELSE LET i == Min({j \in DOMAIN s : s[j] = sep})
         IN  <<SubSeq(s, 1, i - 1)>> \o Split(SubSeq(s, i + 1, Len(s)), sep)

\* val_to_be_colored, bkg_clr, txt_clr = re.split(';', hlgt) needs three fields
Unpackable(hlgt) == Len(Split(hlgt, ";")) = 3

\* color_map[k] = v on an insertion-ordered dict: an existing key keeps its
\* position and takes the new value, a new key goes last
DictSet(cm, k, v) ==
    IF \E i \in DOMAIN cm : cm[i].key = k
    THEN [i \in DOMAIN cm |-> IF cm[i].key = k THEN [v EXCEPT !.key = k] ELSE cm[i]]
    ELSE Append(cm, [v EXCEPT !.key = k])

RECURSIVE BuildColorMapFrom(_, _, _)
BuildColorMapFrom(hs, i, cm) ==
    IF i > Len(hs) THEN cm
    ELSE LET f == Split(hs[i], ";")
         IN  BuildColorMapFrom(hs, i + 1,
                 DictSet(cm, f[1], [key |-> f[1],
                                    background_color |-> f[2],
                                    text_color |-> f[3]]))

BuildColorMap(hs) == BuildColorMapFrom(hs, 1, <<>>)

BkgPrefix == <<"b","a","c","k","g","r","o","u","n","d","-","c","o","l","o","r",":">>
TxtPrefix == <<"c","o","l","o","r",":">>

\* the color_lst appended for one matching entry of color_map
ColorLst(e) ==
    (IF Len(e.background_color) > 0 THEN <<BkgPrefix \o e.background_color>> ELSE <<>>)
    \o (IF Len(e.text_color) > 0 THEN <<TxtPrefix \o e.text_color>> ELSE <<>>)

\* ';'.join(lst)
RECURSIVE Join(_)
Join(lst) ==
    IF lst = <<>> THEN <<>>
    ELSE IF Len(lst) = 1 THEN lst[1]
    ELSE lst[1] \o <<";">> \o Join(Tail(lst))

\* the for loop of highlight_cells from entry i on: stops at the first match
RECURSIVE HighlightLoop(_, _, _)
HighlightLoop(v, cm, i) ==
    IF i > Len(cm) THEN <<>>
    ELSE IF Contains(cm[i].key, v) THEN ColorLst(cm[i])
    ELSE HighlightLoop(v, cm, i + 1)

\* the loop without its break: every matching entry contributes
RECURSIVE HighlightLoopNoBreak(_, _, _)
HighlightLoopNoBreak(v, cm, i) ==
    IF i > Len(cm) THEN <<>>
    ELSE IF Contains(cm[i].key, v) THEN ColorLst(cm[i]) \o HighlightLoopNoBreak(v, cm, i + 1)
    ELSE HighlightLoopNoBreak(v, cm, i + 1)

highlight_cells_nobreak(v, cm) ==
    LET color_lst == HighlightLoopNoBreak(PyStr(v), cm, 1)
    IN  IF color_lst # <<>> THEN Join(color_lst) ELSE None

highlight_cells(v, cm) ==
    LET color_lst == HighlightLoop(PyStr(v), cm, 1)
    IN  IF color_lst # <<>> THEN Join(color_lst) ELSE None

----------------------------------------------------------------------------
(* The well map: convert_table_to_map, lines 346-426 *)

well_cols == 1..12
well_rows == {"A", "B", "C", "D", "E", "F", "G", "H"}

\* df_tpl: every well of the plate, unloaded
df_tpl == [index |-> well_rows, columns |-> well_cols,
           val |-> [cell \in well_rows \X well_cols |-> NaN]]

\* the state of df_pivot before a file has been projected
NoFrame == [index |-> {}, columns |-> {}, val |-> <<>>]

\* df['Content'].str.contains('(?i)Ctrl') with Ctrl compared as written
ContainsCtrlCaseSensitive(content) == Contains(<<"C", "t", "r", "l">>, content)

\* df['Content'].str.contains('(?i)Ctrl')
ContainsCtrl(content) == Contains(<<"c", "t", "r", "l">>, ToLower(content))

\* df['Label']: Content where it is a control, combine_first(Sample) elsewhere
DeriveLabelCaseSensitive(r) == IF ContainsCtrlCaseSensitive(r.Content) THEN r.Content ELSE r.Sample

DeriveLabel(r) == IF ContainsCtrl(r.Content) THEN r.Content ELSE r.Sample

\* df['Well'].str.extract('([a-zA-Z])'): the first letter, NaN without one
WellRow(well) ==
    LET at == {i \in DOMAIN well : IsAlpha(well[i])}
    IN  IF at = {} THEN NaNKey ELSE well[Min(at)]

\* df['Well'].str.extract('([0-9]+)'): the leftmost longest run of digits
HasDigits(well) == \E i \in DOMAIN well : IsDigit(well[i])
DigitRun(well) ==
    LET first == Min({i \in DOMAIN well : IsDigit(well[i])})
        last == Max({j \in first..Len(well) : \A k \in first..j : IsDigit(well[k])})
    IN  SubSeq(well, first, last)

\* .astype(np.int64) of the extracted run
WellCol(well) == ToInt(DigitRun(well))

\* df.pivot(index='Well.row', columns='Well.col', values='Label') raises
\* ValueError when two rows have the same (Well.row, Well.col)
HasDuplicateEntries(rs) ==
    \E i, j \in DOMAIN rs :
        /\ i < j
        /\ WellRow(rs[i].Well) = WellRow(rs[j].Well)
        /\ WellCol(rs[i].Well) = WellCol(rs[j].Well)

\* df.pivot over rows without duplicate entries
Pivot(rs) ==
    LET index == {WellRow(rs[i].Well) : i \in DOMAIN rs}
        columns == {WellCol(rs[i].Well) : i \in DOMAIN rs}
    IN  [index |-> index, columns |-> columns,
         val |-> [cell \in index \X columns |->
                    IF \E i \in DOMAIN rs : <<WellRow(rs[i].Well), WellCol(rs[i].Well)>> = cell
                    THEN DeriveLabel(rs[CHOOSE i \in DOMAIN rs :
                             <<WellRow(rs[i].Well), WellCol(rs[i].Well)>> = cell])
                    ELSE NaN]]

\* a.combine_first(b): the union of both frames' labels, a's value where it
\* is not null, b's value otherwise
CombineFirst(a, b) ==
    LET index == a.index \cup b.index
        columns == a.columns \cup b.columns
    IN  [index |-> index, columns |-> columns,
         val |-> [cell \in index \X columns |->
                    IF cell \in DOMAIN a.val /\ a.val[cell] # NaN THEN a.val[cell]
                    ELSE IF cell \in DOMAIN b.val THEN b.val[cell]
                    ELSE NaN]]

\* df_pivot.style.applymap(highlight_cells, color_map=color_map)
ApplyMap(df, cm) == [cell \in DOMAIN df.val |-> highlight_cells(df.val[cell], cm)]

----------------------------------------------------------------------------
(* Inputs *)

\* well identifiers: three wells of the plate, one without a row letter, one
\* without digits, one with a row and one with a column off the plate
WellPool == {<<"A", "0", "1">>, <<"A", "0", "2">>, <<"H", "1", "2">>,
             <<"9", "9">>, <<"A">>,
             <<"a", "0", "1">>, <<"A", "1", "3">>}

sUnkn == <<"U", "n", "k", "n">>
sPosCtrl == <<"P", "o", "s", " ", "C", "t", "r", "l">>
sNegCtrlLower == <<"n", "e", "g", " ", "c", "t", "r", "l">>
sUT100 == <<"U", "T", "1", "0", "0">>
sUT55 == <<"U", "T", "5", "5">>
sX == <<"x">>

\* (Content, Sample) of a row
ContentSamplePool == {<<sUnkn, sUT100>>, <<sPosCtrl, sX>>, <<sNegCtrlLower, sUT55>>}

RecordPool == {[Well |-> w, Content |-> p[1], Sample |-> p[2]] :
                   w \in WellPool, p \in ContentSamplePool}

RecordLists == UNION {[1..n -> RecordPool] : n \in 0..MaxRecs}

\* headers of the worksheet as read by pd.read_excel
AllHeaders == {"Unnamed: 0", "Well", "Fluor", "Target", "Content", "Sample",
               "Cq", "Cq Mean", "Cq Std. Dev"}
HeaderOptions == {AllHeaders, AllHeaders \ {"Sample"}, AllHeaders \ {"Fluor"}}

\* keys of data_cols, from the_yml['inp']['data']['cols']
data_cols == {"Well", "Content", "Sample"}

cols_to_be_appended == {"Well", "Fluor", "Target", "Content", "Sample",
                        "Cq", "Cq Mean", "Cq Std. Dev"}

\* 'pattern;background;text' entries of the_yml['inp']['data']['highlight']
hCtrlLowerYellow == <<"c", "t", "r", "l", ";", "y", "e", "l", "l", "o", "w", ";">>
hPosLowerRed == <<"p", "o", "s", ";", ";", "r", "e", "d">>
hCtrlYellow == <<"C", "t", "r", "l", ";", "y", "e", "l", "l", "o", "w", ";">>
hPosRed == <<"P", "o", "s", ";", ";", "r", "e", "d">>
hCtrlRed == <<"C", "t", "r", "l", ";", ";", "r", "e", "d">>
hAnYellow == <<"a", "n", ";", "y", "e", "l", "l", "o", "w", ";">>
hUTNone == <<"U", "T", ";", ";">>
hUTGreenBlue == <<"U", "T", ";", "g", "r", "e", "e", "n", ";", "b", "l", "u", "e">>

HlgtPool == {hCtrlLowerYellow, hPosLowerRed, hCtrlYellow, hPosRed, hCtrlRed,
             hAnYellow, hUTNone, hUTGreenBlue}

HlgtLists == UNION {[1..n -> HlgtPool] : n \in 0..MaxRules}

\* the highlight lists of the runs over files
ConvHlgts == {<<hCtrlYellow>>, <<hAnYellow>>}

\* cell values handed to highlight_cells
ValPool == {sPosCtrl, sNegCtrlLower, sUT100, <<>>, NaN}

----------------------------------------------------------------------------
(* convert_table_to_map *)

NotRun == [out |-> <<>>, raised |-> "notrun"]

IdleHighlight == val = NaN /\ the_color = None
IdleTidy == inps = <<>> /\ files = {} /\ tidy = NotRun

Init ==
    /\ hlgts \in ConvHlgts
    /\ color_map = <<>>
    /\ idx = 0
    /\ pc = "setup"
    /\ err = "none"
    /\ headers = {}
    /\ recs = <<>>
    /\ df_pivot = NoFrame
    /\ styled = <<>>
    /\ written = {}
    /\ saved = {}
    /\ started = {}
    /\ IdleHighlight
    /\ IdleTidy

\* lines 330-357: data_cols, color_map, df_tpl; then the first file, if any
Setup ==
    /\ pc = "setup"
    /\ IF \A i \in DOMAIN hlgts : Unpackable(hlgts[i])
       THEN /\ color_map' = BuildColorMap(hlgts)
            /\ IF NumTbls >= 1
               THEN idx' = 1 /\ pc' = "read" /\ started' = {1}
               ELSE idx' = 0 /\ pc' = "done" /\ started' = {}
            /\ err' = "none"
       ELSE /\ pc' = "aborted"
            /\ err' = "ValueError_unpack"
            /\ UNCHANGED <<color_map, idx, started>>
    /\ UNCHANGED <<hlgts, headers, recs, df_pivot, styled, written, saved>>
    /\ UNCHANGED <<hlValVars, tidyVars>>

\* lines 378-387: read the worksheet, drop 'Unnamed: 0', keep the data_cols
ReadTable ==
    /\ pc = "read"
    /\ \E h \in HeaderOptions, rs \in RecordLists :
        IF ({"Unnamed: 0"} \cup data_cols) \subseteq h
        THEN /\ headers' = h
             /\ recs' = rs
             /\ pc' = "project"
             /\ err' = "none"
        ELSE /\ headers' = h
             /\ recs' = <<>>
             /\ pc' = "aborted"
             /\ err' = "KeyError_read"
    /\ UNCHANGED <<hlgts, color_map, idx, df_pivot, styled, written, saved, started>>
    /\ UNCHANGED <<hlValVars, tidyVars>>

\* lines 389-426: labels, well rows and columns, pivot, merge into df_tpl
\* (Label.group and Label.examinee, lines 404-411, are extracted without
\* raising and are not read by the pivot)
Project ==
    /\ pc = "project"
    /\ IF \E i \in DOMAIN recs : ~HasDigits(recs[i].Well)
       THEN /\ pc' = "aborted"
            /\ err' = "ValueError_astype"
            /\ UNCHANGED df_pivot
       ELSE IF HasDuplicateEntries(recs)
       THEN /\ pc' = "aborted"
            /\ err' = "ValueError_pivot"
            /\ UNCHANGED df_pivot
       ELSE /\ df_pivot' = CombineFirst(Pivot(recs), df_tpl)
            /\ pc' = "write"
            /\ err' = "none"
    /\ UNCHANGED <<hlgts, color_map, idx, headers, recs, styled, written, saved, started>>
    /\ UNCHANGED <<hlValVars, tidyVars>>

\* lines 428-436: style the map and write it to the sheet named code_name
WriteSheet ==
    /\ pc = "write"
    /\ styled' = ApplyMap(df_pivot, color_map)
    /\ written' = written \cup {idx}
    /\ pc' = "decorate"
    /\ UNCHANGED <<hlgts, color_map, idx, err, headers, recs, df_pivot, saved, started>>
    /\ UNCHANGED <<hlValVars, tidyVars>>

\* lines 440-488: borders, margins, date, the appended table (a KeyError
\* when the worksheet lacks one of cols_to_be_appended), the image if one
\* exists, wb.save; then the next file of the loop
Decorate ==
    /\ pc = "decorate"
    /\ IF cols_to_be_appended \subseteq headers
       THEN /\ saved' = saved \cup {idx}
            /\ err' = "none"
            /\ IF idx < NumTbls
               THEN /\ idx' = idx + 1
                    /\ started' = started \cup {idx + 1}
                    /\ pc' = "read"
                    /\ headers' = {}
                    /\ recs' = <<>>
                    /\ df_pivot' = NoFrame
                    /\ styled' = <<>>
               ELSE /\ pc' = "done"
                    /\ UNCHANGED <<idx, started, headers, recs, df_pivot, styled>>
       ELSE /\ pc' = "aborted"
            /\ err' = "KeyError_append"
            /\ UNCHANGED <<saved, idx, started, headers, recs, df_pivot, styled>>
    /\ UNCHANGED <<hlgts, color_map, written>>
    /\ UNCHANGED <<hlValVars, tidyVars>>

Next == Setup \/ ReadTable \/ Project \/ WriteSheet \/ Decorate

Spec == Init /\ [][Next]_vars

----------------------------------------------------------------------------
(* highlight_cells on its own: one value against the rules of one list *)

InitHighlight ==
    /\ hlgts \in HlgtLists
    /\ val \in ValPool
    /\ the_color = None
    /\ color_map = <<>>
    /\ pc = "hl_setup"
    /\ idx = 0
    /\ err = "none"
    /\ headers = {}
    /\ recs = <<>>
    /\ df_pivot = NoFrame
    /\ styled = <<>>
    /\ written = {}
    /\ saved = {}
    /\ started = {}
    /\ IdleTidy

\* lines 337-345: the color_map of the highlight list
HighlightSetup ==
    /\ pc = "hl_setup"
    /\ \A i \in DOMAIN hlgts : Unpackable(hlgts[i])
    /\ color_map' = BuildColorMap(hlgts)
    /\ pc' = "hl_apply"
    /\ UNCHANGED <<hlgts, idx, err, headers, recs, df_pivot, styled, written, saved, started>>
    /\ UNCHANGED <<hlValVars, tidyVars>>

\* lines 280-297: highlight_cells(val, color_map)
HighlightCell ==
    /\ pc = "hl_apply"
    /\ the_color' = highlight_cells(val, color_map)
    /\ pc' = "hl_done"
    /\ UNCHANGED <<hlgts, color_map, idx, err, headers, recs, df_pivot, styled,
                   written, saved, started, val>>
    /\ UNCHANGED tidyVars

NextHighlight == HighlightSetup \/ HighlightCell

SpecHighlight == InitHighlight /\ [][NextHighlight]_vars

----------------------------------------------------------------------------
(* get_tidy_list *)

\* the characters of the file names, in code point order
CodeOrder == <<" ", ".", "/", "0", "1", "2", "3", "4", "5", "6", "7", "8", "9", ";">>
             \o Upper \o <<"\\">> \o Lower
Code(c) == CHOOSE i \in DOMAIN CodeOrder : CodeOrder[i] = c

\* a < b on str
RECURSIVE StrLess(_, _)
StrLess(a, b) ==
    IF b = <<>> THEN FALSE
    ELSE IF a = <<>> THEN TRUE
    ELSE IF a[1] # b[1] THEN Code(a[1]) < Code(b[1])
    ELSE StrLess(Tail(a), Tail(b))

\* sorted(S)
RECURSIVE Sorted(_)
Sorted(S) ==
    IF S = {} THEN <<>>
    ELSE LET m == CHOOSE e \in S : \A o \in S \ {e} : StrLess(e, o)
         IN  <<m>> \o Sorted(S \ {m})

\* os.sep of the platform
os_sep == "/"

\* re.sub(r'[\\/]', re.escape(os.sep), inp)
NormSep(inp) == [i \in DOMAIN inp |-> IF inp[i] \in {"\\", "/"} THEN os_sep ELSE inp[i]]

\* re.split(r'\s*;\s*', inp)[0]: the text before the first ';' and the
\* white space that leads to it
FileNamePart(inp) ==
    IF \A i \in DOMAIN inp : inp[i] # ";" THEN inp
    ELSE LET semi == Min({i \in DOMAIN inp : inp[i] = ";"})
             start == Min({i \in 1..semi : \A k \in i..(semi - 1) : IsSpace(inp[k])})
         IN  SubSeq(inp, 1, start - 1)

\* list.remove(x): without the first element equal to x
ListRemove(lst, e) ==
    LET at == Min({i \in DOMAIN lst : lst[i] = e})
    IN  SubSeq(lst, 1, at - 1) \o SubSeq(lst, at + 1, Len(lst))

\* the for loop over inps, the list iterator being at position i: the list
\* shrinks under the iterator when an entry is removed
RECURSIVE NonfileRemoval(_, _, _)
NonfileRemoval(lst, i, fs) ==
    IF i > Len(lst) THEN [out |-> lst, raised |-> "none"]
    ELSE LET inp == FileNamePart(lst[i])
         IN  IF inp \in fs THEN NonfileRemoval(lst, i + 1, fs)
             ELSE IF inp \notin Range(lst) THEN [out |-> lst, raised |-> "ValueError"]
             ELSE NonfileRemoval(ListRemove(lst, inp), i + 1, fs)

get_tidy_list(ins, fs) ==
    NonfileRemoval(Sorted({NormSep(ins[i]) : i \in DOMAIN ins}), 1, fs)

NamePool == {<<"a">>, <<"b">>, <<"c">>, <<"d", "/", "e">>, <<"d", "\\", "e">>,
             <<"b", " ", ";", " ", "p">>}
FilePool == {<<"a">>, <<"b">>, <<"c">>, <<"d", "/", "e">>}
InpLists == UNION {[1..n -> NamePool] : n \in 0..MaxInps}

InitTidy ==
    /\ inps \in InpLists
    /\ files \in SUBSET FilePool
    /\ tidy = NotRun
    /\ hlgts = <<>>
    /\ color_map = <<>>
    /\ pc = "tidy"
    /\ idx = 0
    /\ err = "none"
    /\ headers = {}
    /\ recs = <<>>
    /\ df_pivot = NoFrame
    /\ styled = <<>>
    /\ written = {}
    /\ saved = {}
    /\ started = {}
    /\ IdleHighlight

\* lines 196-207
TidyList ==
    /\ pc = "tidy"
    /\ tidy' = get_tidy_list(inps, files)
    /\ pc' = "tidy_done"
    /\ UNCHANGED <<hlgts, color_map, idx, err, headers, recs, df_pivot, styled,
                   written, saved, started, inps, files>>
    /\ UNCHANGED hlValVars

NextTidy == TidyList

SpecTidy == InitTidy /\ [][NextTidy]_vars

----------------------------------------------------------------------------
(* The plate and the labels as the specification words them *)

PlateRows == {"A", "B", "C", "D", "E", "F", "G", "H"}
PlateCols == {1, 2, 3, 4, 5, 6, 7, 8, 9, 10, 11, 12}
PlateCells == PlateRows \X PlateCols

\* a row letter and a two-digit column
TwoDigitCol(w) == 10 * DigitVal(w[2]) + DigitVal(w[3])
WellFormed(w) ==
    /\ Len(w) = 3
    /\ w[1] \in PlateRows
    /\ IsDigit(w[2]) /\ IsDigit(w[3])
    /\ TwoDigitCol(w) \in PlateCols
CellOf(w) == <<w[1], TwoDigitCol(w)>>

LacksRowLetter(w) == \A i \in DOMAIN w : ~IsAlpha(w[i])
LacksDigits(w) == \A i \in DOMAIN w : ~IsDigit(w[i])

IsCtrlWord(t) ==
    /\ Len(t) = 4
    /\ t[1] \in {"c", "C"} /\ t[2] \in {"t", "T"} /\ t[3] \in {"r", "R"} /\ t[4] \in {"l", "L"}
IsControl(content) ==
    \E i \in 1..(Len(content) - 3) : IsCtrlWord(SubSeq(content, i, i + 3))
LabelOf(r) == IF IsControl(r.Content) THEN r.Content ELSE r.Sample

AllWellFormed == \A i \in DOMAIN recs : WellFormed(recs[i].Well)
DistinctWells ==
    \A i, j \in DOMAIN recs : i # j => CellOf(recs[i].Well) # CellOf(recs[j].Well)
RecordsAt(cell) == {i \in DOMAIN recs : CellOf(recs[i].Well) = cell}

\* the projection of the current file has been run
ProjectionRun ==
    \/ pc \in {"write", "decorate", "done"}
    \/ pc = "aborted" /\ err \in {"ValueError_astype", "ValueError_pivot", "KeyError_append"}
ProjectionFailed == pc = "aborted" /\ err \in {"ValueError_astype", "ValueError_pivot"}

\* C1: well-formed records with pairwise distinct wells project onto exactly
\* the 96 cells A..H x 1..12; the cell of each record holds its label (the
\* content of a control, the sample otherwise), every other cell is absent;
\* no record at all gives the all-absent template.
C1_Projection ==
    (ProjectionRun /\ AllWellFormed /\ DistinctWells) =>
        /\ ~ProjectionFailed
        /\ df_pivot.index = PlateRows
        /\ df_pivot.columns = PlateCols
        /\ DOMAIN df_pivot.val = PlateCells
        /\ \A cell \in PlateCells :
               df_pivot.val[cell] =
                   IF RecordsAt(cell) = {} THEN NaN
                   ELSE LabelOf(recs[CHOOSE i \in RecordsAt(cell) : TRUE])

C1_Witness ==
    /\ pc = "write"
    /\ Len(recs) = 2
    /\ AllWellFormed /\ DistinctWells
    /\ IsControl(recs[1].Content) /\ ~IsControl(recs[2].Content)
    /\ recs[1].Content = sNegCtrlLower

\* C2: two records of one table at the same well do not make the projection
\* fail, and the cell holds the label of the one that comes last.
C2_LastWriteWins ==
    (ProjectionRun /\ AllWellFormed /\ ~DistinctWells) =>
        /\ ~ProjectionFailed
        /\ \A cell \in PlateCells :
               RecordsAt(cell) # {} =>
                   df_pivot.val[cell] = LabelOf(recs[Max(RecordsAt(cell))])

\* C3: a record whose well lacks a row letter or lacks digits makes the
\* projection of the file fail as a whole: no well map is produced.
C3_MalformedWellFails ==
    (ProjectionRun /\ \E i \in DOMAIN recs :
                          LacksRowLetter(recs[i].Well) \/ LacksDigits(recs[i].Well)) =>
        /\ ProjectionFailed
        /\ df_pivot = NoFrame

\* C4: every well map handed to rendering has exactly the 96 keys
\* A..H x 1..12, whatever the records are.
C4_GridShape ==
    pc \in {"write", "decorate"} =>
        /\ df_pivot.index = PlateRows
        /\ df_pivot.columns = PlateCols

\* C5: when the conversion of one file fails, every file that comes after it
\* in the list is still processed.
C5_LaterFilesProcessed ==
    pc = "aborted" => \A i \in 1..NumTbls : i \in started

\* C6: no map sheet has been written to a file whose conversion fails.
C6_NoSheetOnFailure ==
    pc = "aborted" => idx \notin written

\* C9: a cell that no record covers is never styled, whatever the rules are.
C9_UnusedWellUnstyled ==
    pc \in {"decorate", "done", "aborted"} =>
        \A cell \in DOMAIN styled : df_pivot.val[cell] = NaN => styled[cell] = None

----------------------------------------------------------------------------
(* The highlight rules as the specification words them *)

Rule(hlgt) == Split(hlgt, ";")
RuleMatches(hlgt, v) == Contains(Rule(hlgt)[1], v)
RuleStyle(hlgt) ==
    LET bkg == Rule(hlgt)[2]
        txt == Rule(hlgt)[3]
    IN  IF bkg = <<>> /\ txt = <<>> THEN None
        ELSE IF txt = <<>> THEN BkgPrefix \o bkg
        ELSE IF bkg = <<>> THEN TxtPrefix \o txt
        ELSE BkgPrefix \o bkg \o <<";">> \o TxtPrefix \o txt

\* C7: the style of a value is that of the first rule, in list order, whose
\* pattern matches it: that rule's non-empty colors, absent when both are
\* empty, and absent when no rule matches.
C7_FirstRuleWins ==
    (pc = "hl_done" /\ val # NaN) =>
        the_color =
            IF \A i \in DOMAIN hlgts : ~RuleMatches(hlgts[i], val) THEN None
            ELSE RuleStyle(hlgts[Min({i \in DOMAIN hlgts : RuleMatches(hlgts[i], val)})])

sBackgroundYellow == BkgPrefix \o <<"y", "e", "l", "l", "o", "w">>

\* C8 as stated: rules ("ctrl","yellow",""), ("pos","","red") and the value
\* "Pos Ctrl" give background-color:yellow.
C8_AsStated ==
    (pc = "hl_done" /\ val = sPosCtrl /\ hlgts = <<hCtrlLowerYellow, hPosLowerRed>>) =>
        the_color = sBackgroundYellow

\* C8 amended: the match is case-sensitive. Rules ("Ctrl","yellow",""),
\* ("Pos","","red") and the value "Pos Ctrl" give exactly
\* background-color:yellow, the first rule only; the lower-case patterns
\* "ctrl" and "pos" do not match "Pos Ctrl" and give no style.
C8_CaseSensitivePrecedence ==
    (pc = "hl_done" /\ val = sPosCtrl) =>
        /\ hlgts = <<hCtrlYellow, hPosRed>> => the_color = sBackgroundYellow
        /\ hlgts = <<hCtrlLowerYellow, hPosLowerRed>> => the_color = None

C8_Witness ==
    pc = "hl_done" /\ val = sPosCtrl /\ hlgts = <<hCtrlYellow, hPosRed>>
    /\ the_color = sBackgroundYellow

----------------------------------------------------------------------------
(* get_tidy_list as its docstring and comments word it *)

\* C10: get_tidy_list returns without error a sorted, duplicate-free list
\* whose every entry names an existing file (stated here for the input lists
\* of plain file names, without a ';' part).
C10_TidyList ==
    (pc = "tidy_done" /\ \A i \in DOMAIN inps : FileNamePart(inps[i]) = inps[i]) =>
        /\ tidy.raised = "none"
        /\ \A i, j \in DOMAIN tidy.out : i < j => StrLess(tidy.out[i], tidy.out[j])
        /\ \A i \in DOMAIN tidy.out : FileNamePart(tidy.out[i]) \in files

====
